---- MODULE Spec2Model ----
(***************************************************************************)
(* Model of the legal-assistant workflow: the LangGraph state graph built  *)
(* by GraphBuilder.build_graph, its step handlers and routers, the human   *)
(* approval step with its interrupt, the session manager LegalChatManager  *)
(* and the streaming /chat endpoint.                                        *)
(*                                                                         *)
(* The conversation state holds texts as strings.  Chars gives a text's    *)
(* characters, a sequence of one-character strings, on which lower(),      *)
(* strip(), substring tests, split() and the e-mail pattern are computed   *)
(* as the Python code computes them.  An assistant message written by a    *)
(* handler is a one-token text such as "[ask_email]".  None and "" are     *)
(* both "" for text fields, and "none" for enumerated fields.              *)
(***************************************************************************)
EXTENDS Integers, Sequences, FiniteSets, TLC

VARIABLES
    interrupt_before,   \* nodes the compiled graph interrupts before (compile option)
    store,              \* checkpointer: thread id -> [vals, next]
    pending_interrupts, \* LegalChatManager.pending_interrupts: session id -> entry
    active_sessions,    \* LegalChatManager.active_sessions: session id -> query_count
    activity,           \* session ids of active_sessions, oldest last_activity first
    lastRun,            \* history: session id -> what the most recent call for it did
    calls,              \* number of entry-point calls made so far
    inflight,           \* chat() calls begun and not yet returned: call id -> call
    history_reads,      \* history: session id -> its get_conversation_history calls
    clock,              \* datetime.now(), in whole seconds
    system,             \* MultiCountryLegalRAGSystem: its retrievers and graphs
    pd_input,           \* a function examined on its own: the input under
                        \* examination (a decision payload, a routing question)
    pd_result           \* what the function makes of pd_input, or NoResult

vars == <<interrupt_before, store, pending_interrupts, active_sessions, activity,
          lastRun, calls, inflight, history_reads, clock, system, pd_input,
          pd_result>>

-----------------------------------------------------------------------------
(* Text primitives                                                         *)

NoText == ""

Whitespace == {" ", "\t", "\n", "\r"}

UpperLetters == <<"A","B","C","D","E","F","G","H","I","J","K","L","M",
                  "N","O","P","Q","R","S","T","U","V","W","X","Y","Z">>

LowerLetters == <<"a","b","c","d","e","f","g","h","i","j","k","l","m",
                  "n","o","p","q","r","s","t","u","v","w","x","y","z">>

Digits == {"0","1","2","3","4","5","6","7","8","9"}

Range(f) == {f[i] : i \in DOMAIN f}

LowerOf ==
    [c \in Range(UpperLetters) |->
        LowerLetters[CHOOSE i \in DOMAIN UpperLetters : UpperLetters[i] = c]]

LowerChar(c) == IF c \in DOMAIN LowerOf THEN LowerOf[c] ELSE c

\* str.lower()
Lower(t) == [i \in 1..Len(t) |-> LowerChar(t[i])]

RECURSIVE FirstKept(_, _)
FirstKept(t, i) ==
    IF i > Len(t) \/ t[i] \notin Whitespace THEN i ELSE FirstKept(t, i + 1)

RECURSIVE LastKept(_, _)
LastKept(t, i) ==
    IF i < 1 \/ t[i] \notin Whitespace THEN i ELSE LastKept(t, i - 1)

\* str.strip()
Strip(t) == SubSeq(t, FirstKept(t, 1), LastKept(t, Len(t)))

\* positions at which kw occurs in t
Occurrences(t, kw) ==
    {i \in 1..(Len(t) - Len(kw) + 1) : SubSeq(t, i, i + Len(kw) - 1) = kw}

\* kw in t
Contains(t, kw) == Occurrences(t, kw) # {}

\* t.split(kw, 1)[1] when kw occurs in t: the text after the first occurrence
AfterFirst(t, kw) ==
    LET i == CHOOSE k \in Occurrences(t, kw) : \A j \in Occurrences(t, kw) : k <= j
    IN  SubSeq(t, i + Len(kw), Len(t))

\* membership of a text in a Python list of texts
InList(t, list) == \E i \in DOMAIN list : list[i] = t

\* any(kw in t for kw in list)
AnyIn(t, list) == \E i \in DOMAIN list : Contains(t, list[i])

\* the characters of a text held in the conversation state; a handler's
\* canned reply is a single token
Chars(t) ==
    CASE t = ""              -> <<>>
      [] t = "a@b.co"        -> <<"a","@","b",".","c","o">>
      [] t = "divorce benin" -> <<"d","i","v","o","r","c","e"," ","b","e","n","i","n">>
      [] t = "oui"           -> <<"o","u","i">>
      [] t = "approve vu"    -> <<"a","p","p","r","o","v","e"," ","v","u">>
      [] t = "non"           -> <<"n","o","n">>
      [] t = "stop"          -> <<"s","t","o","p">>
      [] t = " divorce b "   -> <<" ","d","i","v","o","r","c","e"," ","b"," ">>
      [] t = " OUI "         -> <<" ","O","U","I"," ">>
      [] t = "oui merci"     -> <<"o","u","i"," ","m","e","r","c","i">>
      [] OTHER               -> <<t>>

-----------------------------------------------------------------------------
(* Keyword lists                                                           *)

approve_keywords ==
    << <<"a","p","p","r","o","v","e">>,
       <<"a","p","p","r","o","u","v","e","r">>,
       <<"o","u","i">>,
       <<"y","e","s">>,
       <<"o","k">>,
       <<"a","c","c","e","p","t">> >>

reject_keywords ==
    << <<"r","e","j","e","c","t">>,
       <<"r","e","j","e","t","e","r">>,
       <<"n","o","n">>,
       <<"n","o">> >>

confirm_yes ==
    << <<"o","u","i">>, <<"y","e","s">>, <<"o","k">>,
       <<"c","o","n","f","i","r","m","e","r">> >>

confirm_no ==
    << <<"n","o","n">>, <<"n","o">>, <<"c","a","n","c","e","l">>,
       <<"a","n","n","u","l","e","r">> >>

route_yes ==
    << <<"o","u","i">>, <<"y","e","s">>, <<"o","k">>,
       <<"c","o","n","f","i","r","m">>,
       <<"c","o","n","f","i","r","m","e","r">>,
       <<"c","'","e","s","t"," ","b","o","n">>,
       <<"d","'","a","c","c","o","r","d">>,
       <<"e","n","v","o","y","e","r">>,
       <<"v","a","l","i","d","e","r">> >>

route_no ==
    << <<"n","o","n">>, <<"n","o">>, <<"c","a","n","c","e","l">>,
       <<"a","n","n","u","l","e","r">>,
       <<"p","a","s"," ","m","a","i","n","t","e","n","a","n","t">>,
       <<"a","r","r","ê","t","e","r">>,
       <<"s","t","o","p">>,
       <<"j","e"," ","n","e"," ","v","e","u","x"," ","p","l","u","s">> >>

-----------------------------------------------------------------------------
(* E-mail pattern  ^[a-zA-Z0-9._%+-]+@[a-zA-Z0-9.-]+\.[a-zA-Z]{2,}$        *)

Letters == Range(UpperLetters) \cup Range(LowerLetters)

LocalChars == Letters \cup Digits \cup {".", "_", "%", "+", "-"}

DomainChars == Letters \cup Digits \cup {".", "-"}

\* re.match of the pattern: '$' also matches just before one trailing newline
email_pattern_match(t) ==
    \E n \in {Len(t)} \cup (IF Len(t) > 0 /\ t[Len(t)] = "\n" THEN {Len(t) - 1} ELSE {}) :
      \E a \in 2..n : \E d \in (a + 2)..n :
        /\ t[a] = "@"
        /\ t[d] = "."
        /\ \A i \in 1..(a - 1) : t[i] \in LocalChars
        /\ \A i \in (a + 1)..(d - 1) : t[i] \in DomainChars
        /\ n - d >= 2
        /\ \A i \in (d + 1)..n : t[i] \in Letters

-----------------------------------------------------------------------------
(* HumanApprovalNode._parse_decision                                       *)

DefaultReason(is_approved) ==
    IF is_approved THEN <<"[Approuvé par modérateur]">> ELSE <<"[Refusé par modérateur]">>

\* the reason loop: the text after the first listed keyword that occurs in the
\* lower-cased input, splits the raw input and leaves a non-blank remainder
RECURSIVE ExtractReason(_, _, _, _)
ExtractReason(user_input, input_lower, kws, i) ==
    IF i > Len(kws) THEN Strip(user_input)
    ELSE IF /\ Contains(input_lower, kws[i])
            /\ Contains(user_input, kws[i])
            /\ Strip(AfterFirst(user_input, kws[i])) # <<>>
         THEN Strip(AfterFirst(user_input, kws[i]))
         ELSE ExtractReason(user_input, input_lower, kws, i + 1)

\* variant for sensitivity checks: the input must be a keyword, not contain one
IsApprovedExact(input_lower) == InList(input_lower, approve_keywords)

IsApproved(input_lower) == AnyIn(input_lower, approve_keywords)

parse_decision(user_input) ==
    IF user_input = <<>>
    THEN [approved |-> FALSE, reason |-> <<"[Input invalide]">>, moderator_id |-> "system"]
    ELSE LET input_lower == Strip(Lower(user_input))
             is_approved == IsApproved(input_lower)
             reason      == ExtractReason(user_input, input_lower,
                                          approve_keywords \o reject_keywords, 1)
         IN  [approved     |-> is_approved,
              reason       |-> IF reason = <<>> \/ reason = user_input
                               THEN DefaultReason(is_approved) ELSE reason,
              moderator_id |-> "human_moderator"]

-----------------------------------------------------------------------------
(* Conversation state (MultiCountryLegalState) and state updates           *)

DefaultVals ==
    [messages               |-> <<>>,
     router_decision        |-> "none",
     assistance_requested   |-> FALSE,
     user_email             |-> NoText,
     assistance_description |-> NoText,
     email_status           |-> "none",
     assistance_step        |-> "none",
     approval_status        |-> "none",
     approval_reason        |-> <<>>,
     approved_by            |-> "none"]

UserMsg(text) == [role |-> "user", content |-> text, processed |-> "none"]

Asst(tag) == [role |-> "assistant", content |-> tag, processed |-> "none"]

\* the value a returned dict gives key k, or d when it has no such key
Written(u, k, d) == IF k \in DOMAIN u THEN u[k] ELSE d

\* variant for sensitivity checks: messages is overwritten like every other key
ApplyOverwriting(v, u) ==
    [messages               |-> Written(u, "messages", v.messages),
     router_decision        |-> Written(u, "router_decision", v.router_decision),
     assistance_requested   |-> Written(u, "assistance_requested", v.assistance_requested),
     user_email             |-> Written(u, "user_email", v.user_email),
     assistance_description |-> Written(u, "assistance_description", v.assistance_description),
     email_status           |-> Written(u, "email_status", v.email_status),
     assistance_step        |-> Written(u, "assistance_step", v.assistance_step),
     approval_status        |-> Written(u, "approval_status", v.approval_status),
     approval_reason        |-> Written(u, "approval_reason", v.approval_reason),
     approved_by            |-> Written(u, "approved_by", v.approved_by)]

\* a node's returned dict merged into the state: messages is reduced with
\* operator.add, every other key is overwritten
ApplyUpdate(v, u) ==
    [messages               |-> v.messages \o Written(u, "messages", <<>>),
     router_decision        |-> Written(u, "router_decision", v.router_decision),
     assistance_requested   |-> Written(u, "assistance_requested", v.assistance_requested),
     user_email             |-> Written(u, "user_email", v.user_email),
     assistance_description |-> Written(u, "assistance_description", v.assistance_description),
     email_status           |-> Written(u, "email_status", v.email_status),
     assistance_step        |-> Written(u, "assistance_step", v.assistance_step),
     approval_status        |-> Written(u, "approval_status", v.approval_status),
     approval_reason        |-> Written(u, "approval_reason", v.approval_reason),
     approved_by            |-> Written(u, "approved_by", v.approved_by)]

NoUpdate == [messages |-> <<>>]

LastMessageContent(v) ==
    IF v.messages = <<>> THEN "" ELSE v.messages[Len(v.messages)].content

UserIndexes(v) == {i \in 1..Len(v.messages) : v.messages[i].role = "user"}

RECURSIVE LastUserFrom(_, _)
LastUserFrom(msgs, i) ==
    IF i < 1 THEN ""
    ELSE IF msgs[i].role = "user" THEN msgs[i].content
    ELSE LastUserFrom(msgs, i - 1)

\* _get_last_human_message / _get_last_user_message: the messages are searched
\* from the last one back; "" when there is none
LastUserContent(v) == LastUserFrom(v.messages, Len(v.messages))

RECURSIVE LastAssistantFrom(_, _)
LastAssistantFrom(msgs, i) ==
    IF i < 1 THEN "[no_response]"
    ELSE IF msgs[i].role = "assistant" THEN msgs[i].content
    ELSE LastAssistantFrom(msgs, i - 1)

\* LegalChatManager._extract_response: the text a call returns
extract_response(v) == LastAssistantFrom(v.messages, Len(v.messages))

\* variant for sensitivity checks: a cancelled sub-workflow counts as in
\* progress
InWorkflowUntilCompleted(step) == step \notin {"none", "completed"}

InWorkflow(step) == step \notin {"none", "cancelled", "completed"}

\* minimum length of a description (workflow_nodes.py: len(...) < 10)
MinDescriptionLen == 10

-----------------------------------------------------------------------------
(* Step handlers.  A handler yields [upd, goto, calls]: the returned state *)
(* update, the Command's goto targets, and the collaborators it invoked.   *)

Destinations ==
    {"benin", "madagascar", "unclear", "greeting_small_talk", "conversation_repair",
     "assistance_request", "conversation_summarization", "out_of_scope"}

Out(upd, goto, used) == [upd |-> upd, goto |-> goto, calls |-> used]

\* What the Classifier does when called: [kind |-> "failure"] when the call
\* raises, a text without JSON, or a text holding a JSON object; "absent" is
\* a key the object does not have
JsonReply(destination, confidence) ==
    [kind |-> "text", json |-> TRUE,
     destination |-> destination, confidence |-> confidence]

RoutingResult(country, confidence, method) ==
    [country |-> country, confidence |-> confidence, method |-> method]

\* variant for sensitivity checks: a destination that is not recognized is
\* taken as out of scope
parse_lenient(reply) ==
    IF ~reply.json
    THEN RoutingResult("unclear", "low", "parse_error")
    ELSE IF reply.destination \notin Destinations \cup {"absent"}
    THEN RoutingResult("out_of_scope", "low", "llm_routing")
    ELSE RoutingResult(IF reply.destination = "absent" THEN "unclear" ELSE reply.destination,
                       "low", "llm_routing")

\* CountryRouter._parse_routing_response; RoutingResult's validation of the
\* confidence raises inside the try block
parse_routing_response(reply) ==
    IF ~reply.json
    THEN RoutingResult("unclear", "low", "parse_error")
    ELSE LET destination == IF reply.destination = "absent" THEN "unclear"
                            ELSE reply.destination
             confidence  == IF reply.confidence = "absent" THEN "low"
                            ELSE reply.confidence
         IN  IF destination \notin Destinations
             THEN RoutingResult("unclear", "low", "llm_routing")
             ELSE IF confidence \notin {"high", "medium", "low"}
             THEN RoutingResult("unclear", "low", "parse_error")
             ELSE RoutingResult(destination, confidence, "llm_routing")

\* CountryRouter.route_query, given what the Classifier does when called
route_query(reply) ==
    IF reply.kind = "failure"
    THEN RoutingResult("unclear", "low", "error_fallback")
    ELSE parse_routing_response(reply)

\* variant for sensitivity checks: the Classifier is consulted for every
\* message that is not blank
router_always_classifying(v, cls) ==
    IF Strip(Chars(LastUserContent(v))) = <<>>
    THEN Out([router_decision |-> "unclear"], {}, {})
    ELSE IF cls = "assistance_request"
    THEN Out([router_decision      |-> cls,
              assistance_step      |-> "collecting_email",
              assistance_requested |-> TRUE], {}, {"classifier"})
    ELSE Out([router_decision |-> cls], {}, {"classifier"})

\* RoutingNodes.router_node with _perform_normal_routing; cls is what
\* CountryRouter.route_query returns when it is consulted
router_node(v, cls) ==
    IF InWorkflow(v.assistance_step)
    THEN Out([router_decision      |-> "assistance_request",
              assistance_step      |-> v.assistance_step,
              assistance_requested |-> TRUE], {}, {})
    ELSE IF Strip(Chars(LastUserContent(v))) = <<>>
    THEN Out([router_decision |-> "unclear"], {}, {})
    ELSE IF cls = "assistance_request"
    THEN Out([router_decision      |-> cls,
              assistance_step      |-> "collecting_email",
              assistance_requested |-> TRUE], {}, {"classifier"})
    ELSE Out([router_decision |-> cls], {}, {"classifier"})

\* GraphBuilder._route_after_router and the router's edge map
route_after_router(v) ==
    LET d == IF v.router_decision = "none" THEN "unclear" ELSE v.router_decision
    IN  CASE d = "benin"                      -> "benin_retrieval"
          [] d = "madagascar"                 -> "madagascar_retrieval"
          [] d = "greeting_small_talk"        -> "greeting_handler"
          [] d = "conversation_repair"        -> "repair_handler"
          [] d = "conversation_summarization" -> "summary_handler"
          [] d = "unclear"                    -> "unclear_handler"
          [] d = "out_of_scope"               -> "out_of_scope_handler"
          [] d = "assistance_request"         -> "assistance_collect_info"

\* greeting, repair, summary, unclear and out-of-scope handlers append one
\* assistant message; the country retrieval nodes append none
simple_handler(n) ==
    IF n \in {"benin_retrieval", "madagascar_retrieval"}
    THEN Out(NoUpdate, {}, {})
    ELSE Out([messages |-> <<Asst("[" \o n \o "]")>>], {}, {})

\* variant for sensitivity checks: once an address has been refused, whatever
\* is given next is kept as the address
collect_email_unchecked(v, user_input) ==
    IF user_input = ""
    THEN Out([assistance_step |-> "collecting_email", messages |-> <<>>], {}, {})
    ELSE IF \/ email_pattern_match(Chars(user_input))
            \/ \E i \in DOMAIN v.messages : v.messages[i].content = "[invalid_email]"
    THEN Out([assistance_step      |-> "collecting_description",
              user_email           |-> user_input,
              assistance_requested |-> TRUE,
              messages             |-> <<>>], {}, {})
    ELSE Out([assistance_step |-> "collecting_email",
              messages        |-> <<Asst("[invalid_email]")>>], {}, {})

\* variant for sensitivity checks: a well-formed address moves the caller on
\* without being stored
collect_email_dropping(v, user_input) ==
    IF user_input = ""
    THEN Out([assistance_step |-> "collecting_email", messages |-> <<>>], {}, {})
    ELSE IF email_pattern_match(Chars(user_input))
    THEN Out([assistance_step      |-> "collecting_description",
              assistance_requested |-> TRUE,
              messages             |-> <<>>], {}, {})
    ELSE Out([assistance_step |-> "collecting_email",
              messages        |-> <<Asst("[invalid_email]")>>], {}, {})

\* the e-mail branch of collect_assistance_info_node
collect_email(v, user_input) ==
    IF user_input = ""
    THEN Out([assistance_step |-> "collecting_email", messages |-> <<>>], {}, {})
    ELSE IF email_pattern_match(Chars(user_input))
    THEN Out([assistance_step      |-> "collecting_description",
              user_email           |-> user_input,
              assistance_requested |-> TRUE,
              messages             |-> <<>>], {}, {})
    ELSE Out([assistance_step |-> "collecting_email",
              messages        |-> <<Asst("[invalid_email]")>>], {}, {})

\* variant for sensitivity checks: the description's length is taken untrimmed
collect_untrimmed(v) ==
    IF v.assistance_step = "collecting_email"
    THEN collect_email(v, LastMessageContent(v))
    ELSE IF v.assistance_step = "collecting_description"
    THEN IF Len(Chars(LastMessageContent(v))) < MinDescriptionLen
         THEN Out([assistance_step |-> "collecting_description",
                   messages        |-> <<>>], {}, {})
         ELSE Out([assistance_description |-> LastMessageContent(v),
                   assistance_step        |-> "confirming_send",
                   messages               |-> <<>>], {}, {})
    ELSE Out(NoUpdate, {}, {})

\* variant for sensitivity checks: a description that is too short sends the
\* caller back to the e-mail question
collect_restarting(v) ==
    IF v.assistance_step = "collecting_email"
    THEN collect_email(v, LastMessageContent(v))
    ELSE IF v.assistance_step = "collecting_description"
    THEN IF Len(Strip(Chars(LastMessageContent(v)))) < MinDescriptionLen
         THEN Out([assistance_step |-> "collecting_email",
                   messages        |-> <<>>], {}, {})
         ELSE Out([assistance_description |-> LastMessageContent(v),
                   assistance_step        |-> "confirming_send",
                   messages               |-> <<>>], {}, {})
    ELSE Out(NoUpdate, {}, {})

\* variant for sensitivity checks: a description of any length is accepted
collect_any_description(v) ==
    IF v.assistance_step = "collecting_email"
    THEN collect_email(v, LastMessageContent(v))
    ELSE IF v.assistance_step = "collecting_description"
    THEN IF LastMessageContent(v) = ""
         THEN Out([assistance_step |-> "collecting_description",
                   messages        |-> <<>>], {}, {})
         ELSE Out([assistance_description |-> LastMessageContent(v),
                   assistance_step        |-> "confirming_send",
                   messages               |-> <<>>], {}, {})
    ELSE Out(NoUpdate, {}, {})

\* AssistanceWorkflowNodes.collect_assistance_info_node
collect_assistance_info_node(v) ==
    LET user_input == LastMessageContent(v)
    IN  IF v.assistance_step = "collecting_email"
        THEN collect_email(v, user_input)
        ELSE IF v.assistance_step = "collecting_description"
        THEN IF user_input = "" \/ Len(Strip(Chars(user_input))) < MinDescriptionLen
             THEN Out([assistance_step |-> "collecting_description",
                       messages        |-> <<>>], {}, {})
             ELSE Out([assistance_description |-> user_input,
                       assistance_step        |-> "confirming_send",
                       messages               |-> <<>>], {}, {})
        ELSE Out(NoUpdate, {}, {})

\* RoutingLogic.route_after_info_collection
route_after_info_collection(v) ==
    LET step            == v.assistance_step
        has_email       == v.user_email # ""
        has_description == v.assistance_description # ""
    IN  IF step = "cancelled" THEN "cancelled"
        ELSE IF step = "collecting_email"
        THEN IF ~has_email THEN "need_email" ELSE "need_description"
        ELSE IF step = "collecting_description"
        THEN IF ~has_description THEN "need_description" ELSE "ready_to_confirm"
        ELSE IF step = "confirming_send" THEN "ready_to_confirm"
        ELSE IF ~has_email THEN "need_email"
        ELSE IF ~has_description THEN "need_description"
        ELSE "ready_to_confirm"

\* AssistanceWorkflowNodes.confirm_assistance_send_node
confirm_assistance_send_node(v) ==
    LET user_input == Strip(Lower(Chars(LastMessageContent(v))))
    IN  IF InList(user_input, confirm_yes)
        THEN Out([assistance_step |-> "confirmed", messages |-> <<>>], {}, {})
        ELSE IF InList(user_input, confirm_no)
        THEN Out([assistance_step      |-> "cancelled",
                  assistance_requested |-> FALSE,
                  messages             |-> <<Asst("[cancelled]")>>], {}, {})
        ELSE Out([assistance_step |-> "confirming_send",
                  messages        |-> <<Asst("[reask_confirm]")>>], {}, {})

\* variant for sensitivity checks: a reply that holds a keyword counts as one
route_after_confirmation_holding(v) ==
    LET step          == v.assistance_step
        user_response == Strip(Lower(Chars(LastUserContent(v))))
    IN  IF step = "cancelled" THEN "cancelled"
        ELSE IF step = "confirmed" THEN "confirmed"
        ELSE IF step = "confirming_send"
        THEN IF AnyIn(user_response, route_yes) THEN "confirmed"
             ELSE IF AnyIn(user_response, route_no) THEN "cancelled"
             ELSE "needs_correction"
        ELSE "needs_correction"

\* RoutingLogic.route_after_confirmation
route_after_confirmation(v) ==
    LET step          == v.assistance_step
        user_response == Strip(Lower(Chars(LastUserContent(v))))
    IN  IF step = "cancelled" THEN "cancelled"
        ELSE IF step = "confirmed" THEN "confirmed"
        ELSE IF step = "confirming_send"
        THEN IF InList(user_response, route_yes) THEN "confirmed"
             ELSE IF InList(user_response, route_no) THEN "cancelled"
             ELSE "needs_correction"
        ELSE "needs_correction"

\* HumanApprovalNode._handle_approval; sent is the Notifier's success flag
handle_approval(v, decision, sent) ==
    Out([approval_status |-> "approved",
         approval_reason |-> decision.reason,
         approved_by     |-> decision.moderator_id,
         email_status    |-> IF sent THEN "sent" ELSE "error",
         messages        |-> <<Asst(IF sent THEN "[approved_sent]"
                                            ELSE "[approved_send_failed]")>>],
        {"response"}, {"notifier"})

\* variant for sensitivity checks: the request is sent out whatever was decided
handle_rejection_notifying(v, decision) ==
    Out([approval_status |-> "rejected",
         approval_reason |-> decision.reason,
         approved_by     |-> decision.moderator_id,
         messages        |-> <<Asst("[rejected]")>>],
        {"response"}, {"notifier"})

\* HumanApprovalNode._handle_rejection
handle_rejection(v, decision) ==
    Out([approval_status |-> "rejected",
         approval_reason |-> decision.reason,
         approved_by     |-> decision.moderator_id,
         messages        |-> <<Asst("[rejected]")>>],
        {"response"}, {})

\* HumanApprovalNode.process_approval.  resume is the pending resume value
\* (<<the payload's characters>>) or <<>>: with none, interrupt() raises GraphInterrupt, an
\* Exception, which the handler's own except clause catches
process_approval(v, resume, sent) ==
    IF v.user_email = "" \/ v.assistance_description = ""
    THEN Out([messages |-> <<Asst("[incomplete]")>>], {"response"}, {})
    ELSE IF resume = <<>>
    THEN Out([approval_status |-> "error",
              messages        |-> <<Asst("[approval_error]")>>], {"response"}, {})
    ELSE LET decision == parse_decision(resume[1])
         IN  IF decision.approved
             THEN handle_approval(v, decision, sent)
             ELSE handle_rejection(v, decision)

\* variant for sensitivity checks: the caller's latest message is read for a
\* decision when the status holds none
route_after_approval_reply(v) ==
    IF v.approval_status = "approved" THEN "approved"
    ELSE IF v.approval_status = "rejected" THEN "rejected"
    ELSE IF IsApproved(Strip(Lower(Chars(LastUserContent(v))))) THEN "approved"
    ELSE "interrupt"

\* RoutingLogic.route_after_human_approval
route_after_human_approval(v) ==
    IF v.approval_status = "approved" THEN "approved"
    ELSE IF v.approval_status = "rejected" THEN "rejected"
    ELSE "interrupt"

\* variant for sensitivity checks: the step leaves the state as it is
process_assistance_idle(v) == Out(NoUpdate, {}, {})

\* GraphBuilder._create_process_assistance_node
process_assistance_node(v) ==
    Out([email_status    |-> "sent",
         approval_status |-> "approved",
         assistance_step |-> "completed",
         messages        |-> <<>>], {}, {})

\* ResponseNodes.response_generation_node
response_generation_node(v) ==
    LET tag == CASE v.assistance_step = "collecting_email"       -> "[ask_email]"
                 [] v.assistance_step = "collecting_description" -> "[ask_description]"
                 [] v.assistance_step = "confirming_send"        -> "[recap]"
                 [] OTHER                                        -> "[llm]"
    IN  Out([messages |-> <<Asst(tag)>>], {}, {"generator"})

\* variant for sensitivity checks: the message looked at is the one before
\* the reply just written
has_recent_user_input(v) ==
    /\ Len(v.messages) >= 2
    /\ v.messages[Len(v.messages) - 1].role = "user"
    /\ v.messages[Len(v.messages) - 1].processed # v.assistance_step

\* GraphBuilder._has_new_user_input
has_new_user_input(v) ==
    /\ v.messages # <<>>
    /\ v.messages[Len(v.messages)].role = "user"
    /\ v.messages[Len(v.messages)].processed # v.assistance_step

\* GraphBuilder._route_after_response
route_after_response(v) ==
    IF InWorkflow(v.assistance_step) /\ has_new_user_input(v)
    THEN "continue_assistance" ELSE "end"

-----------------------------------------------------------------------------
(* The compiled graph (StateGraph edges of build_graph) and the Pregel     *)
(* loop that runs it: supersteps over the set of scheduled nodes, a        *)
(* checkpoint [vals, next] after each, interrupt_before, recursion_limit.  *)

NodeOrder ==
    <<"assistance_collect_info", "assistance_confirm", "benin_retrieval",
      "greeting_handler", "human_approval", "madagascar_retrieval",
      "out_of_scope_handler", "process_assistance", "repair_handler",
      "response", "router", "summary_handler", "unclear_handler">>

\* the handler registered for node n by build_graph
ExecNode(n, v, cls, resume, sent) ==
    CASE n = "router"                  -> router_node(v, cls)
      [] n = "assistance_collect_info" -> collect_assistance_info_node(v)
      [] n = "assistance_confirm"      -> confirm_assistance_send_node(v)
      [] n = "human_approval"          -> process_approval(v, resume, sent)
      [] n = "process_assistance"      -> process_assistance_node(v)
      [] n = "response"                -> response_generation_node(v)
      [] OTHER                         -> simple_handler(n)

\* the edges leaving node n, evaluated on the state as n's own writes leave it
EdgesFrom(n, v) ==
    CASE n = "router" -> {route_after_router(v)}
      [] n = "assistance_collect_info" ->
            IF route_after_info_collection(v) = "ready_to_confirm"
            THEN {"assistance_confirm"} ELSE {"response"}
      [] n = "assistance_confirm" ->
            IF route_after_confirmation(v) = "confirmed"
            THEN {"human_approval"} ELSE {"response"}
      [] n = "human_approval" ->
            IF route_after_human_approval(v) = "approved"
            THEN {"process_assistance"} ELSE {"response"}
      [] n = "response" ->
            IF route_after_response(v) = "continue_assistance"
            THEN {"assistance_collect_info"} ELSE {}
      [] OTHER -> {"response"}

\* the decision the routing function of node n returns on state v, as a pair
\* <<n, decision>>; nodes with a plain edge take no decision
RouteLabels(n, v) ==
    CASE n = "router"                  -> {<<n, route_after_router(v)>>}
      [] n = "assistance_collect_info" -> {<<n, route_after_info_collection(v)>>}
      [] n = "assistance_confirm"      -> {<<n, route_after_confirmation(v)>>}
      [] n = "human_approval"          -> {<<n, route_after_human_approval(v)>>}
      [] n = "response"                -> {<<n, route_after_response(v)>>}
      [] OTHER                         -> {}

TaskSeq(tasks) == SelectSeq(NodeOrder, LAMBDA n : n \in tasks)

\* one superstep: every scheduled node runs on the same state ck.vals; the
\* writes are applied in task order; a node's edges are evaluated on the
\* state as its own writes leave it
\* the outcome acc of the step so far, extended by node n's output o
WithTask(acc, n, o, ck) ==
    [vals   |-> ApplyUpdate(acc.vals, o.upd),
     next   |-> acc.next \cup o.goto \cup EdgesFrom(n, ApplyUpdate(ck.vals, o.upd)),
     calls  |-> acc.calls \cup o.calls,
     routes |-> acc.routes \cup RouteLabels(n, ApplyUpdate(ck.vals, o.upd))]

RECURSIVE StepFold(_, _, _, _, _, _)
StepFold(ck, cls, resume, sent, i, acc) ==
    IF i > Len(NodeOrder) THEN acc
    ELSE IF NodeOrder[i] \notin ck.next
    THEN StepFold(ck, cls, resume, sent, i + 1, acc)
    ELSE StepFold(ck, cls, resume, sent, i + 1,
                  WithTask(acc, NodeOrder[i],
                           ExecNode(NodeOrder[i], ck.vals, cls, resume, sent), ck))

Superstep(ck, cls, resume, sent) ==
    StepFold(ck, cls, resume, sent, 1,
             [vals |-> ck.vals, next |-> {}, calls |-> {}, routes |-> {}])

\* the loop from checkpoint ck.  resuming: this is the first step of a
\* Command(resume=...) run, which is not interrupted again before it starts
RECURSIVE RunLoop(_, _, _, _, _, _, _, _, _)
\* the loop goes on from the checkpoint that superstep outcome r leaves; log
\* holds the collaborators called and the routing decisions taken so far
Continue(r, ck, ib, cls, sent, fuel, trace, log) ==
    RunLoop([vals |-> r.vals, next |-> r.next], ib, cls, <<>>, sent, FALSE,
            fuel - 1, trace \o TaskSeq(ck.next),
            [calls |-> log.calls \cup r.calls, routes |-> log.routes \cup r.routes])

\* the run's result: its last checkpoint, how it ended, the nodes run in
\* order, the collaborators called and the routing decisions taken
RunResult(ck, status, trace, log) ==
    [ck |-> ck, status |-> status, trace |-> trace,
     calls |-> log.calls, routes |-> log.routes]

RunLoop(ck, ib, cls, resume, sent, resuming, fuel, trace, log) ==
    IF ck.next = {}
    THEN RunResult(ck, "done", trace, log)
    ELSE IF ~resuming /\ (ck.next \cap ib) # {}
    THEN RunResult(ck, "interrupted", trace, log)
    ELSE IF fuel = 0
    THEN RunResult(ck, "recursion_error", trace, log)
    ELSE Continue(Superstep(ck, cls, resume, sent), ck, ib, cls, sent, fuel, trace, log)

NoLog == [calls |-> {}, routes |-> {}]

NoCheckpoint == [vals |-> DefaultVals, next |-> {}]

Checkpoint(st, id) == IF id \in DOMAIN st THEN st[id] ELSE NoCheckpoint

\* what the input state writes: _prepare_input_state names messages and
\* router_decision; assistance_requested carries its non-None default; fields
\* left at a None default are not written
InputUpdate(message) ==
    [messages             |-> <<UserMsg(message)>>,
     router_decision      |-> "none",
     assistance_requested |-> FALSE]

\* graph.ainvoke(MultiCountryLegalState(**input_state), config): pending
\* tasks of the thread are dropped and the run starts at the entry node
InvokeInput(ck, message, ib, cls, sent, limit) ==
    RunLoop([vals |-> ApplyUpdate(ck.vals, InputUpdate(message)), next |-> {"router"}],
            ib, cls, <<>>, sent, FALSE, limit, <<>>, NoLog)

\* graph.ainvoke(Command(resume=...), config) for a payload given by its
\* characters
ResumeWith(ck, payload, ib, cls, sent, limit) ==
    RunLoop(ck, ib, cls, <<payload>>, sent, TRUE, limit, <<>>, NoLog)

\* graph.ainvoke(Command(resume=message), config)
InvokeResume(ck, message, ib, cls, sent, limit) ==
    ResumeWith(ck, Chars(message), ib, cls, sent, limit)

-----------------------------------------------------------------------------
(* Bounds and inputs                                                       *)

\* chat() calls explored
MaxCalls == 4

\* calls of the streaming endpoint explored
MaxStreamCalls == 1

\* cleanups and restarts of the manager explored
MaxUpkeep == 1

\* chat() calls explored in which graph.ainvoke raises
MaxFailures == 1

\* supersteps a run may have checkpointed before graph.ainvoke raises
MaxFailStep == 1

\* chat() calls in progress at the same time
MaxInflight == 2

\* seconds of wall-clock time explored
MaxClock == 2

\* get_conversation_history() calls explored for a session
MaxReads == 2

\* longest free-text tail of a decision payload explored
MaxReasonLen == 3

\* recursion_limit passed by LegalChatManager.chat
RecursionLimit == 100

\* LangGraph's default recursion_limit, used by the streaming endpoint
DefaultRecursionLimit == 25

Sessions == {"s1"}

\* messages a caller sends: an address, a request or description, a yes, a
\* moderator's decision
UserTexts == {"a@b.co", "divorce benin", "oui", "approve vu"}

\* messages of a caller going through the assistance sub-workflow: an address,
\* a description, a yes, two refusals, and a text of 11 characters of which 9
\* are left once trimmed
WorkflowTexts == {"a@b.co", "divorce benin", "oui", "non", "stop", " divorce b "}

\* what the Classifier may answer for a query
ClassifierAnswers == {"assistance_request", "benin"}

-----------------------------------------------------------------------------
(* LegalChatManager and the streaming endpoint                             *)

\* variant for sensitivity checks: one value shared by every key
PutShared(f, k, x) == [y \in DOMAIN f \cup {k} |-> x]

Put(f, k, x) == [y \in DOMAIN f \cup {k} |-> IF y = k THEN x ELSE f[y]]

Without(f, ks) == [y \in DOMAIN f \ ks |-> f[y]]

EmptyMap == [y \in {} |-> TRUE]

\* LegalChatManager._initialize_session: the query count after this call
query_count_after(s) ==
    (IF s \in DOMAIN active_sessions THEN active_sessions[s] ELSE 0) + 1

Touch(s) == Append(SelectSeq(activity, LAMBDA x : x # s), s)

\* what a call did: the checkpoint it found, the run r it made and whether it
\* returned the conversation as suspended
RunRecord(s, kind, message, before, r, suspended) ==
    [kind          |-> kind,
     payload       |-> message,
     before        |-> before,
     wasPending    |-> s \in DOMAIN pending_interrupts,
     wasSuspended  |-> s \in DOMAIN lastRun /\ lastRun[s].suspended,
     status        |-> r.status,
     trace         |-> r.trace,
     calls         |-> r.calls,
     routes        |-> r.routes,
     suspended     |-> suspended]

\* graph.ainvoke with a Command(resume=message) or with the message as input
Invoke(resuming, ck, message, ib, cls, sent, limit) ==
    IF resuming
    THEN InvokeResume(ck, message, ib, cls, sent, limit)
    ELSE InvokeInput(ck, message, ib, cls, sent, limit)

\* The runs the collaborators allow: the Classifier's answer cls is drawn for
\* a run that consults the Classifier, the Notifier's report sent for a run
\* that calls the Notifier
NotifierRuns(resuming, ck, message, ib, limit, cls, r) ==
    IF "notifier" \in r.calls
    THEN {r, Invoke(resuming, ck, message, ib, cls, FALSE, limit)}
    ELSE {r}

AnswersFor(r) ==
    IF "classifier" \in r.calls THEN ClassifierAnswers ELSE {"unclear"}

Runs(resuming, ck, message, ib, limit) ==
    UNION {NotifierRuns(resuming, ck, message, ib, limit, cls,
                        Invoke(resuming, ck, message, ib, cls, TRUE, limit))
           : cls \in AnswersFor(Invoke(resuming, ck, message, ib, "unclear", TRUE, limit))}

\* _handle_pending_interrupt from the checkpoint ck that graph.ainvoke read
\* for the thread; the run's last checkpoint becomes the thread's latest
resume_pending_from(s, message, ck) ==
    \E r \in Runs(TRUE, ck, message, interrupt_before, RecursionLimit) :
      /\ store' = Put(store, s, r.ck)
      /\ pending_interrupts' = Without(pending_interrupts, {s})
      /\ lastRun' = Put(lastRun, s, RunRecord(s, "resume", message, ck, r, FALSE))

\* LegalChatManager._handle_pending_interrupt
handle_pending_interrupt(s, message) ==
    \E ck \in {Checkpoint(store, s)} : resume_pending_from(s, message, ck)

\* chat without a pending interrupt, lines 43-83, from the checkpoint ck that
\* graph.ainvoke read for the thread
new_turn_from(s, message, ck) ==
    \E r \in Runs(FALSE, ck, message, interrupt_before, RecursionLimit) :
      \E paused \in {r.status # "recursion_error" /\ r.ck.next # {}} :
        /\ store' = Put(store, s, r.ck)
        /\ pending_interrupts' =
              IF paused
              THEN Put(pending_interrupts, s,
                       [type |-> "human_approval", paused_at |-> r.ck.next])
              ELSE pending_interrupts
        /\ lastRun' = Put(lastRun, s, RunRecord(s, "new", message, ck, r, paused))

\* LegalChatManager.chat without a pending interrupt: lines 43-83
chat_new_turn(s, message) ==
    \E ck \in {Checkpoint(store, s)} : new_turn_from(s, message, ck)

\* what LegalChatManager.chat does to the manager and the store
ChatSteps(s, message) ==
    /\ calls.chat < MaxCalls
    /\ calls' = [calls EXCEPT !.chat = @ + 1]
    /\ active_sessions' = Put(active_sessions, s, query_count_after(s))
    /\ activity' = Touch(s)
    /\ IF s \in DOMAIN pending_interrupts
       THEN handle_pending_interrupt(s, message)
       ELSE chat_new_turn(s, message)
    /\ UNCHANGED <<interrupt_before, inflight, history_reads, clock, pd_input, pd_result>>

\* LegalChatManager.chat
Chat(s, message) ==
    /\ ChatSteps(s, message)
    /\ UNCHANGED system

\* graph.ainvoke raising once k supersteps are checkpointed: the runs that
\* have not ended by then, each as far as its k-th checkpoint (nothing is
\* checkpointed when k = 0)
FailedRuns(resuming, ck, message, ib, k) ==
    {[r EXCEPT !.status = "error", !.ck = IF k = 0 THEN ck ELSE r.ck] :
       r \in {x \in Runs(resuming, ck, message, ib, k) : x.status = "recursion_error"}}

\* LegalChatManager.chat when graph.ainvoke raises: the except clause of
\* _handle_pending_interrupt deletes the pending entry, the except clause of
\* chat leaves pending_interrupts alone; both return an error text
ChatFails(s, message, k) ==
    /\ calls.chat < MaxCalls
    /\ calls.failed < MaxFailures
    /\ calls' = [calls EXCEPT !.chat = @ + 1, !.failed = @ + 1]
    /\ active_sessions' = Put(active_sessions, s, query_count_after(s))
    /\ activity' = Touch(s)
    /\ \E ck \in {Checkpoint(store, s)} :
         \E r \in FailedRuns(s \in DOMAIN pending_interrupts, ck, message,
                             interrupt_before, k) :
           /\ store' = Put(store, s, r.ck)
           /\ pending_interrupts' = Without(pending_interrupts, {s})
           /\ lastRun' = Put(lastRun, s,
                             RunRecord(s, IF s \in DOMAIN pending_interrupts
                                          THEN "resume" ELSE "new",
                                       message, ck, r, FALSE))
    /\ UNCHANGED <<interrupt_before, inflight, history_reads, clock, system, pd_input,
                   pd_result>>

\* LegalChatManager.cleanup_inactive_sessions: the k sessions inactive longest
\* are older than the cutoff
Cleanup(k) ==
    /\ calls.upkeep < MaxUpkeep
    /\ k \in 1..Len(activity)
    /\ calls' = [calls EXCEPT !.upkeep = @ + 1]
    /\ \E old \in {{activity[i] : i \in 1..k}} :
         /\ active_sessions' = Without(active_sessions, old)
         /\ pending_interrupts' = Without(pending_interrupts, old)
    /\ activity' = SubSeq(activity, k + 1, Len(activity))
    /\ UNCHANGED <<interrupt_before, store, lastRun, inflight, history_reads,
                   clock, system, pd_input, pd_result>>

\* a new process: LegalChatManager.__init__ over the same checkpointer
Restart ==
    /\ calls.upkeep < MaxUpkeep
    /\ DOMAIN lastRun # {}
    /\ calls' = [calls EXCEPT !.upkeep = @ + 1]
    /\ active_sessions' = EmptyMap
    /\ pending_interrupts' = EmptyMap
    /\ activity' = <<>>
    /\ UNCHANGED <<interrupt_before, store, lastRun, inflight, history_reads,
                   clock, system, pd_input, pd_result>>

\* api/main.py generate_legal_chat_responses: the graph of setup_system,
\* compiled without interrupt_before, always given the message as input
StreamChat(s, message) ==
    /\ calls.stream < MaxStreamCalls
    /\ calls' = [calls EXCEPT !.stream = @ + 1]
    /\ \E ck \in {Checkpoint(store, s)} :
         \E r \in Runs(FALSE, ck, message, {}, DefaultRecursionLimit) :
           /\ store' = Put(store, s, r.ck)
           /\ lastRun' = Put(lastRun, s, RunRecord(s, "stream", message, ck, r, FALSE))
    /\ UNCHANGED <<interrupt_before, pending_interrupts, active_sessions,
                   activity, inflight, history_reads, clock, system, pd_input, pd_result>>

\* utils.helpers.dict_to_message_obj: the message class chosen by role, with
\* the content
dict_to_message_obj(m) ==
    [type    |-> IF m.role \in {"user", "human", "humanmessage"} THEN "HumanMessage"
                 ELSE IF m.role \in {"assistant", "ai", "aimessage"} THEN "AIMessage"
                 ELSE "SystemMessage",
     content |-> m.content]

\* variant for sensitivity checks: the latest message comes first
history_latest_first(ck) ==
    [i \in 1..Len(ck.vals.messages) |->
       dict_to_message_obj(ck.vals.messages[Len(ck.vals.messages) + 1 - i])]

\* the list get_conversation_history builds from the state aget_state returns
history_of(ck) ==
    [i \in 1..Len(ck.vals.messages) |-> dict_to_message_obj(ck.vals.messages[i])]

ReadsOf(s) == IF s \in DOMAIN history_reads THEN history_reads[s].count ELSE 0

\* LegalChatManager.get_conversation_history; seen is the checkpoint the call
\* read
GetHistory(s) ==
    /\ ReadsOf(s) < MaxReads
    /\ history_reads' =
          Put(history_reads, s,
              [count  |-> ReadsOf(s) + 1,
               result |-> history_of(Checkpoint(store, s)),
               seen   |-> Checkpoint(store, s)])
    /\ UNCHANGED <<interrupt_before, store, pending_interrupts, active_sessions,
                   activity, lastRun, calls, inflight, clock, system, pd_input, pd_result>>

\* the id MultiCountryLegalRAGSystem.chat gives a send that comes without
\* one: "cli_" and datetime.now() formatted as %Y%m%d_%H%M%S
cli_session_id(now) == "cli_" \o ToString(now)

\* MultiCountryLegalRAGSystem.chat(message, session_id=None)
SystemChatNoId(message) ==
    /\ Strip(Chars(message)) # <<>>
    /\ Chat(cli_session_id(clock), message)

\* a second of wall-clock time passes
Tick ==
    /\ clock < MaxClock
    /\ clock' = clock + 1
    /\ UNCHANGED <<interrupt_before, store, pending_interrupts, active_sessions,
                   activity, lastRun, calls, inflight, history_reads, system, pd_input,
                   pd_result>>

-----------------------------------------------------------------------------
(* Specifications                                                          *)

NoResult == [made |-> FALSE]

\* the countries _initialize_default_countries gives a retriever
DefaultCountries == {"benin", "madagascar"}

NoGraph == <<>>

\* MultiCountryLegalRAGSystem.__init__.  graph is the system's compiled graph
\* and manager_graph the one its LegalChatManager holds, each given by the
\* countries it has a retrieval node for; added holds the countries add_country
\* accepted on the initialized system, chat_graph the graph the latest chat()
\* since then ran on
NewSystem ==
    [initialized        |-> FALSE,
     country_retrievers |-> {},
     graph              |-> NoGraph,
     manager_graph      |-> NoGraph,
     added              |-> {},
     chat_graph         |-> NoGraph]

\* the system as initialize() leaves it: the graph built over the retrievers
\* and handed to the LegalChatManager
Initialized(sys) ==
    [sys EXCEPT !.initialized        = TRUE,
                !.country_retrievers = @ \cup DefaultCountries,
                !.graph              = <<sys.country_retrievers \cup DefaultCountries>>,
                !.manager_graph      = <<sys.country_retrievers \cup DefaultCountries>>]

InitializedSystem == Initialized(NewSystem)

InitManager ==
    /\ store = EmptyMap
    /\ pending_interrupts = EmptyMap
    /\ active_sessions = EmptyMap
    /\ activity = <<>>
    /\ lastRun = EmptyMap
    /\ calls = [chat |-> 0, stream |-> 0, upkeep |-> 0, failed |-> 0]
    /\ inflight = EmptyMap
    /\ history_reads = EmptyMap
    /\ clock = 0
    /\ system = InitializedSystem

\* the graph is compiled with interrupt_before=["human_approval"] by main.py
\* and without it by system_initializer.py
Init ==
    /\ interrupt_before \in {{"human_approval"}, {}}
    /\ InitManager
    /\ pd_input = <<>>
    /\ pd_result = NoResult

ChatCall == \E s \in Sessions, m \in UserTexts : Chat(s, m)

CleanupCall == \E k \in 1..Cardinality(Sessions) : Cleanup(k)

StreamCall == \E s \in Sessions, m \in UserTexts : StreamChat(s, m)

Next == ChatCall \/ CleanupCall \/ Restart \/ StreamCall

Spec == Init /\ [][Next]_vars

\* sequences of chat() and cleanup_inactive_sessions() calls on one manager
NextManager == ChatCall \/ CleanupCall

SpecManager == Init /\ [][NextManager]_vars

\* chat() calls with restarts of the manager in between
NextRestart == ChatCall \/ Restart

SpecRestart == Init /\ [][NextRestart]_vars

\* chat() calls and calls of the streaming endpoint over the same store
NextStream == ChatCall \/ StreamCall

SpecStream == Init /\ [][NextStream]_vars

NoIdCall == \E m \in UserTexts : SystemChatNoId(m)

NextNoId == NoIdCall \/ Tick

\* sends that come without a conversation id, as time passes
SpecNoId == Init /\ [][NextNoId]_vars

HistoryCall == \E s \in Sessions : GetHistory(s)

NextHistory == ChatCall \/ HistoryCall

\* chat() calls with readings of the history in between
SpecHistory == Init /\ [][NextHistory]_vars

\* the checkpoint of a conversation that gave an address and a description
\* and answered "non" to the confirmation
CancelledCheckpoint ==
    InvokeInput(
      InvokeInput(
        InvokeInput(NoCheckpoint, "a@b.co", {"human_approval"},
                    "assistance_request", TRUE, RecursionLimit).ck,
        "divorce benin", {"human_approval"}, "unclear", TRUE, RecursionLimit).ck,
      "non", {"human_approval"}, "unclear", TRUE, RecursionLimit).ck

\* a manager constructed over an empty store, or over a store that holds a
\* conversation cancelled at the confirmation
InitWorkflow ==
    /\ interrupt_before \in {{"human_approval"}, {}}
    /\ store \in {EmptyMap, [s \in Sessions |-> CancelledCheckpoint]}
    /\ pending_interrupts = EmptyMap
    /\ active_sessions = EmptyMap
    /\ activity = <<>>
    /\ lastRun = EmptyMap
    /\ calls = [chat |-> 0, stream |-> 0, upkeep |-> 0, failed |-> 0]
    /\ inflight = EmptyMap
    /\ history_reads = EmptyMap
    /\ clock = 0
    /\ system = InitializedSystem
    /\ pd_input = <<>>
    /\ pd_result = NoResult

WorkflowCall == \E s \in Sessions, m \in WorkflowTexts : Chat(s, m)

FailingCall ==
    \E s \in Sessions, m \in UserTexts, k \in 0..MaxFailStep : ChatFails(s, m, k)

NextWorkflow == WorkflowCall

\* chat() calls of a caller going through the assistance sub-workflow
SpecWorkflow == InitWorkflow /\ [][NextWorkflow]_vars

NextFaults == ChatCall \/ FailingCall

\* chat() calls, some of which fail
SpecFaults == Init /\ [][NextFaults]_vars

-----------------------------------------------------------------------------
(* Concurrent chat() calls.  chat is a coroutine: it runs without a break  *)
(* up to its first await, graph.ainvoke, and other calls run while it      *)
(* awaits.                                                                  *)

ConcurrentSessions == {"s1", "s2"}

ConcurrentTexts == {"a@b.co", "divorce benin", "oui"}

FreeCallIds == (1..MaxInflight) \ DOMAIN inflight

\* chat() up to graph.ainvoke: _initialize_session, the test of
\* pending_interrupts that selects _handle_pending_interrupt, and the input
\* or Command built for the graph (chat_manager.py lines 36-48, 87-94)
BeginChat(s, message) ==
    /\ calls.chat < MaxCalls
    /\ FreeCallIds # {}
    /\ calls' = [calls EXCEPT !.chat = @ + 1]
    /\ active_sessions' = Put(active_sessions, s, query_count_after(s))
    /\ activity' = Touch(s)
    /\ \E c \in {CHOOSE x \in FreeCallIds : \A y \in FreeCallIds : x <= y} :
         inflight' = Put(inflight, c,
                         [session  |-> s,
                          message  |-> message,
                          resuming |-> s \in DOMAIN pending_interrupts,
                          loaded   |-> <<>>])
    /\ UNCHANGED <<interrupt_before, store, pending_interrupts, lastRun,
                   history_reads, clock, system, pd_input, pd_result>>

\* the rest of call c: graph.ainvoke and what follows it.  A resume whose
\* pending entry another call has deleted meanwhile ends in the except clause,
\* the entry staying deleted
FinishChat(c) ==
    /\ c \in DOMAIN inflight
    /\ inflight' = Without(inflight, {c})
    /\ IF inflight[c].resuming
       THEN handle_pending_interrupt(inflight[c].session, inflight[c].message)
       ELSE chat_new_turn(inflight[c].session, inflight[c].message)
    /\ UNCHANGED <<interrupt_before, active_sessions, activity, calls,
                   history_reads, clock, system, pd_input, pd_result>>

BeginCall == \E s \in ConcurrentSessions, m \in ConcurrentTexts : BeginChat(s, m)

FinishCall == \E c \in 1..MaxInflight : FinishChat(c)

NextConcurrent == BeginCall \/ FinishCall

\* chat() calls for two sessions, up to MaxInflight of them in progress at once
SpecConcurrent == Init /\ [][NextConcurrent]_vars

-----------------------------------------------------------------------------
(* Decisions: a suspended conversation resumed with each payload of a      *)
(* bounded set                                                             *)

PayloadAlphabet == {"o", "k", "n", "O", " ", "x"}

RECURSIVE TextsUpTo(_)
TextsUpTo(n) ==
    IF n = 0 THEN {<<>>}
    ELSE TextsUpTo(n - 1)
           \cup {Append(t, c) : t \in {u \in TextsUpTo(n - 1) : Len(u) = n - 1},
                                c \in PayloadAlphabet}

RejectPrefix == <<"r","e","j","e","c","t"," ">>

ApprovePrefix == <<"a","p","p","r","o","v","e"," ">>

\* bare texts, and "reject <reason>" and "approve <reason>" as the approval
\* prompt asks for them
Payloads ==
    {pre \o t : pre \in {<<>>, RejectPrefix, ApprovePrefix}, t \in TextsUpTo(MaxReasonLen)}
      \ {<<>>}

\* the checkpoint of a conversation that gave an address, a description and
\* its confirmation on the graph compiled with interrupt_before
SuspendedCheckpoint ==
    InvokeInput(
      InvokeInput(
        InvokeInput(NoCheckpoint, "a@b.co", {"human_approval"},
                    "assistance_request", TRUE, RecursionLimit).ck,
        "divorce benin", {"human_approval"}, "unclear", TRUE, RecursionLimit).ck,
      "oui", {"human_approval"}, "unclear", TRUE, RecursionLimit).ck

DecisionRecord(parsed, r, sent) ==
    [made            |-> TRUE,
     approved        |-> parsed.approved,
     reason          |-> parsed.reason,
     moderator_id    |-> parsed.moderator_id,
     approval_status |-> r.ck.vals.approval_status,
     email_status    |-> r.ck.vals.email_status,
     notifier        |-> IF "notifier" \notin r.calls THEN "not_called"
                         ELSE IF sent THEN "sent" ELSE "failed",
     response        |-> extract_response(r.ck.vals),
     next            |-> r.ck.next,
     trace           |-> r.trace]

\* _handle_pending_interrupt's resume of the suspended conversation with
\* payload pd_input
Decide(sent) ==
    /\ ~pd_result.made
    /\ pd_result' = DecisionRecord(
                      parse_decision(pd_input),
                      ResumeWith(SuspendedCheckpoint, pd_input, {"human_approval"},
                                 "unclear", sent, RecursionLimit),
                      sent)
    /\ UNCHANGED <<interrupt_before, store, pending_interrupts, active_sessions,
                   activity, lastRun, calls, inflight, history_reads, clock, system, pd_input>>

InitParse ==
    /\ interrupt_before = {"human_approval"}
    /\ InitManager
    /\ pd_input \in Payloads
    /\ pd_result = NoResult

NextParse == \E sent \in BOOLEAN : Decide(sent)

SpecParse == InitParse /\ [][NextParse]_vars

-----------------------------------------------------------------------------
(* Routing functions examined on their own                                 *)

ClassifierReplies ==
    {[kind |-> "failure"], [kind |-> "text", json |-> FALSE]}
      \cup {JsonReply(d, c) : d \in Destinations \cup {"absent", "nowhere"},
                              c \in {"high", "medium", "low", "absent", "certain"}}

\* states the router is entered in: no message, a query, a blank query, no
\* user message; outside and inside a sub-workflow
RouterStates ==
    {[DefaultVals EXCEPT !.messages = m, !.assistance_step = st] :
       m \in {<<>>, <<UserMsg("divorce benin")>>, <<UserMsg(" ")>>, <<Asst("[llm]")>>},
       st \in {"none", "cancelled", "completed", "collecting_email"}}

\* states the approval step may leave
ApprovalStates ==
    {[DefaultVals EXCEPT !.messages = <<UserMsg(m), Asst(a)>>, !.approval_status = st,
                         !.assistance_step = "confirmed"] :
       m \in {"approve vu", "non", "oui"},
       a \in {"[approved_sent]", "[rejected]", "[approval_error]"},
       st \in {"none", "pending", "approved", "rejected", "error"}}

InitRouting ==
    /\ interrupt_before = {"human_approval"}
    /\ InitManager
    /\ pd_input \in {[fn |-> "router", vals |-> v, reply |-> r] :
                        v \in RouterStates, r \in ClassifierReplies}
                   \cup {[fn |-> "human_approval", vals |-> v] : v \in ApprovalStates}
    /\ pd_result = NoResult

\* the router step on pd_input.vals with the Classifier replying
\* pd_input.reply, and the edge taken after it
RouteQuery ==
    /\ ~pd_result.made
    /\ pd_input.fn = "router"
    /\ \E o \in {router_node(pd_input.vals, route_query(pd_input.reply).country)} :
         pd_result' = [made            |-> TRUE,
                       calls           |-> o.calls,
                       upd             |-> o.upd,
                       router_decision |-> ApplyUpdate(pd_input.vals, o.upd).router_decision,
                       edge |-> route_after_router(ApplyUpdate(pd_input.vals, o.upd))]
    /\ UNCHANGED <<interrupt_before, store, pending_interrupts, active_sessions,
                   activity, lastRun, calls, inflight, history_reads, clock, system, pd_input>>

\* the edge taken after the approval step has left pd_input.vals
RouteApproval ==
    /\ ~pd_result.made
    /\ pd_input.fn = "human_approval"
    /\ pd_result' = [made     |-> TRUE,
                     decision |-> route_after_human_approval(pd_input.vals),
                     edge     |-> EdgesFrom("human_approval", pd_input.vals)]
    /\ UNCHANGED <<interrupt_before, store, pending_interrupts, active_sessions,
                   activity, lastRun, calls, inflight, history_reads, clock, system, pd_input>>

NextRouting == RouteQuery \/ RouteApproval

SpecRouting == InitRouting /\ [][NextRouting]_vars

-----------------------------------------------------------------------------
(* Conversations taken up after the sub-workflow has reached its last      *)
(* steps                                                                    *)

\* messages sent to such a conversation: a moderator's approval, a refusal,
\* a yes, a yes in capitals between blanks, a yes with more words, a request
\* and an address
FollowUpTexts ==
    {"approve vu", "non", "oui", " OUI ", "oui merci", "divorce benin", "a@b.co"}

\* the checkpoint of a conversation that gave an address and a description
\* and is asked to confirm
ConfirmingCheckpoint ==
    InvokeInput(
      InvokeInput(NoCheckpoint, "a@b.co", {"human_approval"},
                  "assistance_request", TRUE, RecursionLimit).ck,
      "divorce benin", {"human_approval"}, "unclear", TRUE, RecursionLimit).ck

\* a manager holding one conversation: asked to confirm, cancelled at the
\* confirmation, or suspended before the approval step with its pending entry
InitFollowUp ==
    /\ interrupt_before = {"human_approval"}
    /\ store \in {[s \in Sessions |-> ConfirmingCheckpoint],
                  [s \in Sessions |-> CancelledCheckpoint],
                  [s \in Sessions |-> SuspendedCheckpoint]}
    /\ pending_interrupts =
          [s \in {x \in Sessions : store[x].next # {}} |->
             [type |-> "human_approval", paused_at |-> store[s].next]]
    /\ active_sessions = [s \in Sessions |-> 3]
    /\ activity \in {<<s>> : s \in Sessions}
    /\ lastRun = EmptyMap
    /\ calls = [chat |-> 0, stream |-> 0, upkeep |-> 0, failed |-> 0]
    /\ inflight = EmptyMap
    /\ history_reads = EmptyMap
    /\ clock = 0
    /\ system = InitializedSystem
    /\ pd_input = <<>>
    /\ pd_result = NoResult

FollowUpCall == \E s \in Sessions, m \in FollowUpTexts : Chat(s, m)

SpecFollowUp == InitFollowUp /\ [][FollowUpCall]_vars

-----------------------------------------------------------------------------
(* Overlapping runs on one thread.  graph.ainvoke first awaits the         *)
(* checkpointer's read of the thread's latest checkpoint                   *)
(* (AsyncPostgresSaver), runs from what it read, and writes checkpoints as *)
(* it goes; nothing keeps a second call from reading the same checkpoint   *)
(* before the first has written.                                           *)

OverlapTexts == {"approve vu", "non"}

\* call c's graph.ainvoke reads the latest checkpoint of its thread
LoadCheckpoint(c) ==
    /\ c \in DOMAIN inflight
    /\ inflight[c].loaded = <<>>
    /\ inflight' = [inflight EXCEPT
                      ![c].loaded = <<Checkpoint(store, inflight[c].session)>>]
    /\ UNCHANGED <<interrupt_before, store, pending_interrupts, active_sessions,
                   activity, lastRun, calls, history_reads, clock, system, pd_input,
                   pd_result>>

\* the rest of call c: the run from the checkpoint it read and what follows
\* graph.ainvoke.  A resume whose pending entry another call has deleted
\* meanwhile ends in the except clause, the entry staying deleted
FinishLoaded(c) ==
    /\ c \in DOMAIN inflight
    /\ inflight[c].loaded # <<>>
    /\ inflight' = Without(inflight, {c})
    /\ IF inflight[c].resuming
       THEN resume_pending_from(inflight[c].session, inflight[c].message,
                                inflight[c].loaded[1])
       ELSE new_turn_from(inflight[c].session, inflight[c].message,
                          inflight[c].loaded[1])
    /\ UNCHANGED <<interrupt_before, active_sessions, activity, calls,
                   history_reads, clock, system, pd_input, pd_result>>

\* a manager holding two conversations suspended before the approval step
InitOverlap ==
    /\ interrupt_before = {"human_approval"}
    /\ store = [s \in ConcurrentSessions |-> SuspendedCheckpoint]
    /\ pending_interrupts =
          [s \in ConcurrentSessions |->
             [type |-> "human_approval", paused_at |-> {"human_approval"}]]
    /\ active_sessions = [s \in ConcurrentSessions |-> 3]
    /\ activity = <<"s1", "s2">>
    /\ lastRun = EmptyMap
    /\ calls = [chat |-> 0, stream |-> 0, upkeep |-> 0, failed |-> 0]
    /\ inflight = EmptyMap
    /\ history_reads = EmptyMap
    /\ clock = 0
    /\ system = InitializedSystem
    /\ pd_input = <<>>
    /\ pd_result = NoResult

BeginOverlapCall == \E s \in ConcurrentSessions, m \in OverlapTexts : BeginChat(s, m)

LoadCall == \E c \in 1..MaxInflight : LoadCheckpoint(c)

FinishLoadedCall == \E c \in 1..MaxInflight : FinishLoaded(c)

NextOverlap == BeginOverlapCall \/ LoadCall \/ FinishLoadedCall

\* chat() calls carrying decisions for suspended conversations, up to
\* MaxInflight of them in progress at once
SpecOverlap == InitOverlap /\ [][NextOverlap]_vars

-----------------------------------------------------------------------------
(* Countries added to the running system                                   *)

\* countries a caller may add
NewCountries == {"togo", "mali"}

\* MultiCountryLegalRAGSystem.initialize
Initialize ==
    /\ ~system.initialized
    /\ system' = Initialized(system)
    /\ UNCHANGED <<interrupt_before, store, pending_interrupts, active_sessions,
                   activity, lastRun, calls, inflight, history_reads, clock,
                   pd_input, pd_result>>

\* MultiCountryLegalRAGSystem.add_country for a country that has no retriever
\* yet (for one that has, it returns False and changes nothing): the
\* retriever is stored and, on an initialized system, self.graph is compiled
\* anew; self.chat_manager is not touched
AddCountry(country_code) ==
    /\ country_code \notin system.country_retrievers
    /\ system' = [system EXCEPT
                    !.country_retrievers = @ \cup {country_code},
                    !.graph = IF system.initialized
                              THEN <<system.country_retrievers \cup {country_code}>>
                              ELSE @,
                    !.added = IF system.initialized
                              THEN @ \cup {country_code} ELSE @,
                    !.chat_graph = NoGraph]
    /\ UNCHANGED <<interrupt_before, store, pending_interrupts, active_sessions,
                   activity, lastRun, calls, inflight, history_reads, clock,
                   pd_input, pd_result>>

\* MultiCountryLegalRAGSystem.chat(message, session_id): the call is handed to
\* self.chat_manager, which runs the graph it was constructed with
SystemChat(s, message) ==
    /\ system.initialized
    /\ Strip(Chars(message)) # <<>>
    /\ ChatSteps(s, message)
    /\ system' = [system EXCEPT !.chat_graph = system.manager_graph]

\* a system just constructed; main.py compiles its graphs with
\* interrupt_before=["human_approval"]
InitCountries ==
    /\ interrupt_before = {"human_approval"}
    /\ store = EmptyMap
    /\ pending_interrupts = EmptyMap
    /\ active_sessions = EmptyMap
    /\ activity = <<>>
    /\ lastRun = EmptyMap
    /\ calls = [chat |-> 0, stream |-> 0, upkeep |-> 0, failed |-> 0]
    /\ inflight = EmptyMap
    /\ history_reads = EmptyMap
    /\ clock = 0
    /\ system = NewSystem
    /\ pd_input = <<>>
    /\ pd_result = NoResult

AddCountryCall == \E c \in NewCountries : AddCountry(c)

SystemChatCall == \E s \in Sessions, m \in UserTexts : SystemChat(s, m)

NextCountries == Initialize \/ AddCountryCall \/ SystemChatCall

\* a system that is initialized, given countries and sent messages
SpecCountries == InitCountries /\ [][NextCountries]_vars

-----------------------------------------------------------------------------
(* Properties                                                              *)

HumanApproval == {"human_approval"}

\* the conversation as the most recent call for s found it and left it
Found(s) == lastRun[s].before

Left(s) == store[s]

StartsWith(t, pre) == Len(t) >= Len(pre) /\ SubSeq(t, 1, Len(pre)) = pre

\* some keyword of the list occurs in t, letter case apart
KeywordIn(t, kws) ==
    \E k \in DOMAIN kws :
      \E i \in 1..(Len(t) - Len(kws[k]) + 1) :
        \A j \in 1..Len(kws[k]) : LowerChar(t[i + j - 1]) = kws[k][j]

UserTurns(ck) == Cardinality(UserIndexes(ck.vals))

\* the call for s was handled as the resume of the suspended approval step:
\* the run starts at human_approval, the router and the Classifier stay out
\* of it, and the payload is no new user turn
HandledAsResume(s) ==
    /\ lastRun[s].trace # <<>>
    /\ lastRun[s].trace[1] = "human_approval"
    /\ "router" \notin Range(lastRun[s].trace)
    /\ "classifier" \notin lastRun[s].calls
    /\ UserTurns(Left(s)) = UserTurns(Found(s))

\* C1: in a fresh conversation whose first message the Classifier answers with
\* assistance_request, the first run ends at collecting_email with the prompt
\* for the address; a valid address then leads to collecting_description with
\* user_email that message; a description of at least 10 characters then leads
\* to confirming_send; "oui" or "yes" then ends the run suspended with
\* human_approval pending.
C1_Progression ==
    \A s \in DOMAIN lastRun :
      lastRun[s].kind = "new" =>
        /\ (/\ Found(s).vals.messages = <<>>
            /\ "classifier" \in lastRun[s].calls
            /\ Left(s).vals.router_decision = "assistance_request")
           => /\ Left(s).vals.assistance_step = "collecting_email"
              /\ LastMessageContent(Left(s).vals) = "[ask_email]"
        /\ (/\ Found(s).vals.assistance_step = "collecting_email"
            /\ email_pattern_match(Chars(lastRun[s].payload)))
           => /\ Left(s).vals.assistance_step = "collecting_description"
              /\ Left(s).vals.user_email = lastRun[s].payload
        /\ (/\ Found(s).vals.assistance_step = "collecting_description"
            /\ Len(Strip(Chars(lastRun[s].payload))) >= MinDescriptionLen)
           => Left(s).vals.assistance_step = "confirming_send"
        /\ (/\ Found(s).vals.assistance_step = "confirming_send"
            /\ lastRun[s].payload \in {"oui", "yes"})
           => /\ lastRun[s].suspended
              /\ Left(s).next = HumanApproval

\* C2: resuming a conversation suspended at human_approval with a payload
\* "approve <reason>" ends the run not suspended, with approval_status =
\* approved, the pending-interrupt entry removed and assistance_step =
\* completed.
C2_ApproveResume ==
    \A s \in DOMAIN lastRun :
      (/\ lastRun[s].kind = "resume"
       /\ Found(s).next = HumanApproval
       /\ StartsWith(Chars(lastRun[s].payload), ApprovePrefix))
      => /\ ~lastRun[s].suspended
         /\ Left(s).next = {}
         /\ Left(s).vals.approval_status = "approved"
         /\ Left(s).vals.assistance_step = "completed"
         /\ s \notin DOMAIN pending_interrupts

C2_Witness ==
    \E s \in DOMAIN lastRun :
      /\ lastRun[s].kind = "resume"
      /\ Found(s).next = HumanApproval
      /\ lastRun[s].payload = "approve vu"
      /\ Left(s).vals.approval_status = "approved"
      /\ Left(s).vals.assistance_step = "completed"

\* C3: the run in which the user confirms the request ends suspended at the
\* approval step and sets no approval_status, on the graph compiled with
\* interrupt_before and on the graph compiled without it.
C3_ConfirmSuspends ==
    \A s \in DOMAIN lastRun :
      (/\ lastRun[s].kind = "new"
       /\ "assistance_confirm" \in Range(lastRun[s].trace)
       /\ Left(s).vals.assistance_step = "confirmed")
      => /\ lastRun[s].suspended
         /\ Left(s).next = HumanApproval
         /\ Left(s).vals.approval_status = Found(s).vals.approval_status

\* C4: when the previous chat() call for a session returned suspended, the
\* next chat() call for it is delivered to the approval step as its resume
\* payload: no router, no Classifier, no new user turn.
C4_ResumeConvention ==
    \A s \in DOMAIN lastRun :
      lastRun[s].wasSuspended
      => /\ lastRun[s].kind = "resume"
         /\ HandledAsResume(s)

\* C5: after any sequence of chat() and cleanup_inactive_sessions() calls, a
\* session is in pending_interrupts if and only if the most recent run for it
\* returned suspended.
C5_PendingIffSuspended ==
    \A s \in Sessions :
      s \in DOMAIN pending_interrupts
        <=> (s \in DOMAIN lastRun /\ lastRun[s].suspended)

\* C6: a conversation the store holds suspended at human_approval is resumed
\* by a send through a new LegalChatManager: the send is the resume payload of
\* the approval step, not a new route.
C6_StoreOnlyResume ==
    \A s \in DOMAIN lastRun :
      Found(s).next = HumanApproval
      => /\ lastRun[s].kind = "resume"
         /\ HandledAsResume(s)

\* C7: a message sent to the streaming endpoint with the session_id of a
\* conversation suspended at human_approval is the resume payload of that
\* step, not input routed from the start.
C7_StreamResumes ==
    \A s \in DOMAIN lastRun :
      (lastRun[s].kind = "stream" /\ Found(s).next = HumanApproval)
      => HandledAsResume(s)

\* C8: on resume, a payload containing an approval keyword yields approved =
\* true and approval_status = approved; a payload containing a rejection
\* keyword and no approval keyword yields approved = false and
\* approval_status = rejected.
C8_KeywordDecides ==
    pd_result.made =>
      /\ KeywordIn(pd_input, approve_keywords)
         => (pd_result.approved /\ pd_result.approval_status = "approved")
      /\ (KeywordIn(pd_input, reject_keywords) /\ ~KeywordIn(pd_input, approve_keywords))
         => (~pd_result.approved /\ pd_result.approval_status = "rejected")

C8_Witness ==
    /\ pd_result.made
    /\ KeywordIn(pd_input, reject_keywords)
    /\ ~KeywordIn(pd_input, approve_keywords)
    /\ ~StartsWith(pd_input, RejectPrefix)
    /\ pd_result.approval_status = "rejected"

\* C9: resuming a suspended conversation with a payload that contains neither
\* an approval nor a rejection keyword leaves it suspended at human_approval:
\* no approved or rejected decision is recorded and the routing after the
\* approval step yields "interrupt".
C9_NoKeywordStaysSuspended ==
    \A s \in DOMAIN lastRun :
      (/\ lastRun[s].kind = "resume"
       /\ Found(s).next = HumanApproval
       /\ ~KeywordIn(Chars(lastRun[s].payload), approve_keywords)
       /\ ~KeywordIn(Chars(lastRun[s].payload), reject_keywords))
      => /\ Left(s).next = HumanApproval
         /\ Left(s).vals.approval_status \notin {"approved", "rejected"}
         /\ route_after_human_approval(Left(s).vals) = "interrupt"

\* C10: a payload "reject <reason>" rejects the request for every reason, and
\* a payload "approve <reason>" approves it for every reason.
C10_PromptForms ==
    pd_result.made =>
      /\ StartsWith(pd_input, RejectPrefix) => pd_result.approval_status = "rejected"
      /\ StartsWith(pd_input, ApprovePrefix) => pd_result.approval_status = "approved"

\* the reply as the confirmation step reads it: trimmed, letter case apart
Reply(s) == Strip(Lower(Chars(lastRun[s].payload)))

ReachedApproval(s) ==
    \/ "human_approval" \in Range(lastRun[s].trace)
    \/ lastRun[s].suspended
    \/ Left(s).next # {}

\* the run started a new instance of the assistance sub-workflow: the
\* Classifier answered assistance_request
StartsInstance(s) ==
    /\ "classifier" \in lastRun[s].calls
    /\ <<"router", "assistance_collect_info">> \in lastRun[s].routes

\* C11: a reply to the confirmation prompt that is a negative keyword sets
\* assistance_step to cancelled, and neither that run nor a later run before
\* a new sub-workflow starts suspends or reaches the approval step.
C11_CancelAtConfirmation ==
    \A s \in DOMAIN lastRun :
      /\ (Found(s).vals.assistance_step = "confirming_send" /\ InList(Reply(s), route_no))
         => /\ Left(s).vals.assistance_step = "cancelled"
            /\ ~ReachedApproval(s)
      /\ (Found(s).vals.assistance_step = "cancelled" /\ ~StartsInstance(s))
         => /\ Left(s).vals.assistance_step = "cancelled"
            /\ ~ReachedApproval(s)

\* C12: the run in which the user cancels at the confirmation leaves
\* user_email and assistance_description empty, and a run that starts a new
\* sub-workflow instance finds both empty.
C12_FieldsPerInstance ==
    \A s \in DOMAIN lastRun :
      /\ (Found(s).vals.assistance_step = "confirming_send"
          /\ Left(s).vals.assistance_step = "cancelled")
         => /\ Left(s).vals.user_email = NoText
            /\ Left(s).vals.assistance_description = NoText
      /\ (~InWorkflow(Found(s).vals.assistance_step) /\ StartsInstance(s))
         => /\ Found(s).vals.user_email = NoText
            /\ Found(s).vals.assistance_description = NoText

\* C13: while assistance_step = collecting_description, a message of fewer
\* than 10 characters once trimmed leaves assistance_step at
\* collecting_description and assistance_description unset.
C13_ShortDescriptionStays ==
    \A s \in DOMAIN lastRun :
      (/\ Found(s).vals.assistance_step = "collecting_description"
       /\ Len(Strip(Chars(lastRun[s].payload))) < MinDescriptionLen)
      => /\ Left(s).vals.assistance_step = "collecting_description"
         /\ Left(s).vals.assistance_description = NoText

C13_Witness ==
    \E s \in DOMAIN lastRun :
      /\ Found(s).vals.assistance_step = "collecting_description"
      /\ lastRun[s].payload = " divorce b "
      /\ "assistance_collect_info" \in Range(lastRun[s].trace)
      /\ Left(s).vals.assistance_step = "collecting_description"
      /\ LastMessageContent(Left(s).vals) = "[ask_description]"

\* C14: in a sub-workflow instance past the e-mail question (user_email set
\* to a valid address), no run takes the routing decision need_email and no
\* run leaves assistance_step at collecting_email.
C14_EmailMonotonic ==
    \A s \in DOMAIN lastRun :
      (/\ Found(s).vals.assistance_step
             \in {"collecting_description", "confirming_send", "confirmed"}
       /\ email_pattern_match(Chars(Found(s).vals.user_email)))
      => /\ <<"assistance_collect_info", "need_email">> \notin lastRun[s].routes
         /\ Left(s).vals.assistance_step # "collecting_email"
         /\ Left(s).vals.user_email = Found(s).vals.user_email

C14_Witness ==
    \E s \in DOMAIN lastRun :
      /\ Found(s).vals.assistance_step = "collecting_description"
      /\ Found(s).vals.user_email = "a@b.co"
      /\ lastRun[s].payload = "oui"
      /\ <<"assistance_collect_info", "need_description">> \in lastRun[s].routes
      /\ Left(s).vals.assistance_step = "collecting_description"

IsPrefix(a, b) == Len(a) <= Len(b) /\ SubSeq(b, 1, Len(a)) = a

\* C15: in every step, each conversation of the store is still there and its
\* messages are the messages it had, followed by zero or more new ones.
C15_MessagesAppendOnly ==
    [][\A s \in DOMAIN store :
         /\ s \in DOMAIN store'
         /\ IsPrefix(store[s].vals.messages, store'[s].vals.messages)]_vars

C15_Witness ==
    \E s \in DOMAIN lastRun :
      /\ lastRun[s].kind = "resume"
      /\ lastRun[s].status = "error"
      /\ Len(Found(s).vals.messages) >= 6
      /\ Len(Left(s).vals.messages) > Len(Found(s).vals.messages)

C19_FailedResumeStaysSuspended ==
    \A s \in DOMAIN lastRun :
      (/\ lastRun[s].kind = "resume"
       /\ lastRun[s].status = "error"
       /\ Left(s).next = HumanApproval)
      => s \in DOMAIN pending_interrupts

\* C20: when the moderator approves and the Notifier fails, approval_status
\* is approved and the response the call returns reports the failure.
C20_ApprovalDecoupled ==
    (pd_result.made /\ pd_result.approved /\ pd_result.notifier = "failed")
    => /\ pd_result.approval_status = "approved"
       /\ pd_result.response = "[approved_send_failed]"

\* what a mapping of the manager or the store holds for session s
Entry(f, s) == IF s \in DOMAIN f THEN <<f[s]>> ELSE <<>>

\* C17: two chat() calls for the same session are never in progress at the
\* same time.
C17_SameSessionSerialized ==
    \A c1, c2 \in DOMAIN inflight :
      c1 # c2 => inflight[c1].session # inflight[c2].session

\* C18: a step of a chat() call for one session leaves every other session's
\* checkpoint, pending-interrupt entry and session statistics as they were.
C18_SessionsIndependent ==
    [][\A b \in ConcurrentSessions :
         (\A c \in DOMAIN inflight \ DOMAIN inflight' : inflight[c].session # b)
         /\ (\A c \in DOMAIN inflight' \ DOMAIN inflight : inflight'[c].session # b)
         => /\ Entry(store, b) = Entry(store', b)
            /\ Entry(pending_interrupts, b) = Entry(pending_interrupts', b)
            /\ Entry(active_sessions, b) = Entry(active_sessions', b)]_vars

C18_Witness ==
    /\ "s1" \in DOMAIN pending_interrupts
    /\ "s2" \in DOMAIN store
    /\ "s2" \in DOMAIN lastRun
    /\ lastRun["s2"].wasPending = FALSE
    /\ activity = <<"s1", "s2">>
    /\ inflight = EmptyMap

AssistanceNodes == {"assistance_collect_info", "assistance_confirm", "human_approval"}

\* the conversation as a resume that recorded a rejection left it: the
\* rejection notice followed by the reply of the response step
JustRejected(ck) ==
    /\ ck.next = {}
    /\ ck.vals.approval_status = "rejected"
    /\ Len(ck.vals.messages) >= 2
    /\ ck.vals.messages[Len(ck.vals.messages) - 1].content = "[rejected]"

\* C21: the user message that follows a recorded rejection is classified
\* afresh, and unless the Classifier answers assistance_request it is given
\* to none of the collect, confirm and approve steps.
C21_RejectionEndsWorkflow ==
    \A s \in DOMAIN lastRun :
      (lastRun[s].kind = "new" /\ JustRejected(Found(s)))
        => /\ "classifier" \in lastRun[s].calls
           /\ Left(s).vals.router_decision # "assistance_request"
                => Range(lastRun[s].trace) \cap AssistanceNodes = {}


\* C22: a get_conversation_history call leaves the store and the pending
\* interrupts as they are and returns the conversation's messages in order;
\* a second call with no run in between returns the same list.
C22_HistoryReadOnly ==
    [][\A s \in Sessions :
         Entry(history_reads, s) # Entry(history_reads', s)
         => /\ store' = store
            /\ pending_interrupts' = pending_interrupts
            /\ Len(history_reads'[s].result) = Len(Checkpoint(store, s).vals.messages)
            /\ \A i \in DOMAIN history_reads'[s].result :
                 history_reads'[s].result[i].content
                   = Checkpoint(store, s).vals.messages[i].content
            /\ (s \in DOMAIN history_reads /\ history_reads[s].seen = Checkpoint(store, s))
                 => history_reads'[s].result = history_reads[s].result]_vars

C22_Witness ==
    \E s \in DOMAIN history_reads :
      /\ history_reads[s].count = 2
      /\ Len(history_reads[s].result) >= 2
      /\ history_reads[s].seen = Checkpoint(store, s)
      /\ s \in DOMAIN pending_interrupts


\* C23: every send without a conversation id creates a conversation of its
\* own: there are as many conversations as there were such sends.
C23_NewConversationPerSend == Cardinality(DOMAIN store) = calls.chat


\* C24: the decision taken after the approval step is a function of
\* approval_status alone: approved gives approved and the edge to
\* process_assistance, rejected gives rejected and the edge to response, every
\* other status gives interrupt, whatever the messages hold.
C24_ApprovalRouteByStatus ==
    (pd_result.made /\ pd_input.fn = "human_approval")
      => /\ pd_result.decision =
              (CASE pd_input.vals.approval_status = "approved" -> "approved"
                 [] pd_input.vals.approval_status = "rejected" -> "rejected"
                 [] OTHER                                      -> "interrupt")
         /\ pd_result.edge =
              (IF pd_input.vals.approval_status = "approved"
               THEN {"process_assistance"} ELSE {"response"})

C24_Witness ==
    /\ pd_result.made
    /\ pd_input.fn = "human_approval"
    /\ pd_input.vals.approval_status = "pending"
    /\ LastUserContent(pd_input.vals) = "approve vu"
    /\ pd_result.decision = "interrupt"

\* the Classifier's reply names no destination of the fixed set
BadReply(reply) ==
    \/ reply.kind = "failure"
    \/ ~reply.json
    \/ reply.destination \notin Destinations

\* the router step is reached outside a sub-workflow
FreshRouting == pd_input.fn = "router" /\ ~InWorkflow(pd_input.vals.assistance_step)

\* C28: the router's decision is always one of the fixed destinations and
\* leads to a node of the graph; outside a sub-workflow a Classifier failure,
\* an unparsable reply, an unrecognized or missing destination and a missing
\* or blank user query all give unclear.
C28_RouterTotal ==
    (pd_result.made /\ pd_input.fn = "router")
      => /\ pd_result.router_decision \in Destinations
         /\ pd_result.edge \in Range(NodeOrder)
         /\ (FreshRouting /\ (\/ BadReply(pd_input.reply)
                               \/ Strip(Chars(LastUserContent(pd_input.vals))) = <<>>))
              => /\ pd_result.router_decision = "unclear"
                 /\ pd_result.edge = "unclear_handler"

C28_Witness ==
    /\ pd_result.made
    /\ FreshRouting
    /\ LastUserContent(pd_input.vals) = "divorce benin"
    /\ pd_input.reply = JsonReply("nowhere", "high")
    /\ pd_result.calls = {"classifier"}
    /\ pd_result.edge = "unclear_handler"

\* C29: outside a sub-workflow, a reply of the Classifier that reports low
\* confidence gives unclear whatever destination it names.
C29_LowConfidenceUnclear ==
    (/\ pd_result.made
     /\ FreshRouting
     /\ "classifier" \in pd_result.calls
     /\ pd_input.reply.kind = "text"
     /\ pd_input.reply.json
     /\ pd_input.reply.confidence = "low")
      => pd_result.router_decision = "unclear"


\* C30: a message of the cancel keyword list sent while the address or the
\* description is being collected ends the sub-workflow: routing after the
\* collection step returns cancelled, assistance_step becomes cancelled, and
\* the message is stored in neither field.
C30_CancelDuringCollection ==
    \A s \in DOMAIN lastRun :
      (/\ lastRun[s].kind = "new"
       /\ Found(s).vals.assistance_step \in {"collecting_email", "collecting_description"}
       /\ InList(Reply(s), route_no))
        => /\ <<"assistance_collect_info", "cancelled">> \in lastRun[s].routes
           /\ Left(s).vals.assistance_step = "cancelled"
           /\ Left(s).vals.user_email # lastRun[s].payload
           /\ Left(s).vals.assistance_description # lastRun[s].payload


\* C25: the approval step is scheduled only by a run whose user message,
\* trimmed and lower-cased, is an affirmative keyword; a reply to the
\* confirmation prompt that is in neither keyword list routes to
\* needs_correction, leaves the step at confirming_send and asks again.
C25_NoSilentConfirmation ==
    \A s \in DOMAIN lastRun :
      lastRun[s].kind = "new"
      => /\ ReachedApproval(s) => InList(Reply(s), route_yes)
         /\ (/\ Found(s).vals.assistance_step = "confirming_send"
             /\ ~InList(Reply(s), route_yes)
             /\ ~InList(Reply(s), route_no))
            => /\ <<"assistance_confirm", "needs_correction">> \in lastRun[s].routes
               /\ Left(s).vals.assistance_step = "confirming_send"
               /\ LastMessageContent(Left(s).vals) = "[recap]"

C25_Witness ==
    \E s \in DOMAIN lastRun :
      /\ lastRun[s].kind = "new"
      /\ Found(s).vals.assistance_step = "confirming_send"
      /\ lastRun[s].payload = "oui merci"
      /\ <<"assistance_confirm", "needs_correction">> \in lastRun[s].routes
      /\ ~ReachedApproval(s)


\* the state the router step of the run for s is entered in
RouterEntry(s) == ApplyUpdate(Found(s).vals, InputUpdate(lastRun[s].payload))

\* C26: a user message that arrives while a sub-workflow is in progress
\* bypasses classification: the Classifier is not invoked, the router decides
\* assistance_request and hands on to the collection step, and the router
\* writes assistance_step as it found it.
C26_RouterBypass ==
    \A s \in DOMAIN lastRun :
      (lastRun[s].kind = "new" /\ InWorkflow(Found(s).vals.assistance_step))
        => /\ "classifier" \notin lastRun[s].calls
           /\ <<"router", "assistance_collect_info">> \in lastRun[s].routes
           /\ Left(s).vals.router_decision = "assistance_request"
           /\ \A cls \in ClassifierAnswers :
                router_node(RouterEntry(s), cls).upd.assistance_step
                  = Found(s).vals.assistance_step

C26_Witness ==
    \E s \in DOMAIN lastRun :
      /\ lastRun[s].kind = "new"
      /\ Found(s).vals.assistance_step = "confirming_send"
      /\ lastRun[s].payload = "divorce benin"
      /\ "classifier" \notin lastRun[s].calls
      /\ lastRun[s].trace[2] = "assistance_collect_info"

LatestUserMessage(s) ==
    Left(s).vals.messages[CHOOSE i \in UserIndexes(Left(s).vals) :
                            \A j \in UserIndexes(Left(s).vals) : j <= i]

\* C31: a run in which the collection or the confirmation handler consumed
\* the user message leaves that message marked as processed in an assistance
\* step, so that _has_new_user_input does not report it again.
C31_ConsumedMessageMarked ==
    \A s \in DOMAIN lastRun :
      (/\ lastRun[s].kind = "new"
       /\ Range(lastRun[s].trace) \cap {"assistance_collect_info", "assistance_confirm"} # {})
        => LatestUserMessage(s).processed # "none"


\* C32: at collecting_email a message that is no well-formed address leaves
\* assistance_step at collecting_email and the collected fields, the approval
\* fields and email_status as they were; the run only appends the message and
\* assistant texts, the last of which asks for the address.
C32_InvalidEmailStays ==
    \A s \in DOMAIN lastRun :
      (/\ lastRun[s].kind = "new"
       /\ Found(s).vals.assistance_step = "collecting_email"
       /\ ~email_pattern_match(Chars(lastRun[s].payload)))
        => /\ Left(s).vals.assistance_step = "collecting_email"
           /\ Left(s).vals.user_email = Found(s).vals.user_email
           /\ Left(s).vals.assistance_description = Found(s).vals.assistance_description
           /\ Left(s).vals.email_status = Found(s).vals.email_status
           /\ Left(s).vals.approval_status = Found(s).vals.approval_status
           /\ Left(s).next = {}
           /\ IsPrefix(Found(s).vals.messages \o <<UserMsg(lastRun[s].payload)>>,
                       Left(s).vals.messages)
           /\ \A i \in (Len(Found(s).vals.messages) + 2)..Len(Left(s).vals.messages) :
                Left(s).vals.messages[i].role = "assistant"
           /\ LastMessageContent(Left(s).vals) = "[ask_email]"

C32_Witness ==
    \E s \in DOMAIN lastRun :
      /\ lastRun[s].kind = "new"
      /\ Found(s).vals.assistance_step = "collecting_email"
      /\ lastRun[s].payload = "divorce benin"
      /\ Left(s).vals.assistance_step = "collecting_email"
      /\ Left(s).vals.messages[Len(Left(s).vals.messages) - 1].content = "[invalid_email]"


\* C33: the Notifier is called only in a run that resumes a suspended
\* conversation with a payload parsed as an approval: never in a run started by
\* a new message, never on a resume whose payload is parsed as a rejection.
C33_NotifierOnlyOnApproval ==
    \A s \in DOMAIN lastRun :
      "notifier" \in lastRun[s].calls
        => /\ lastRun[s].kind = "resume"
           /\ lastRun[s].wasPending
           /\ Found(s).next = {"human_approval"}
           /\ parse_decision(Chars(lastRun[s].payload)).approved
           /\ Left(s).vals.approval_status = "approved"

C33_Witness ==
    \E s \in DOMAIN lastRun :
      /\ "notifier" \in lastRun[s].calls
      /\ lastRun[s].kind = "resume"
      /\ lastRun[s].payload = "approve vu"


\* how many times node n ran in the run whose trace is given
TimesRun(trace, n) == Cardinality({i \in DOMAIN trace : trace[i] = n})

\* C34: a run that resumes a suspended conversation with a decision runs the
\* approval step once and the response step exactly once: after the decision
\* one next step is scheduled, process_assistance on approval, response on
\* rejection.
C34_OneSuccessorAfterApproval ==
    \A s \in DOMAIN lastRun :
      (/\ lastRun[s].kind = "resume"
       /\ Found(s).next = HumanApproval
       /\ lastRun[s].status = "done")
        => /\ TimesRun(lastRun[s].trace, "human_approval") = 1
           /\ TimesRun(lastRun[s].trace, "response") = 1


\* C35: a conversation whose checkpoint has a pending step is pending before
\* human_approval with an address and a description on record, and no
\* conversation holds the message of process_approval's missing-fields branch.
C35_SuspendedIsComplete ==
    \A s \in DOMAIN store :
      /\ store[s].next # {}
           => /\ store[s].next = HumanApproval
              /\ store[s].vals.user_email # ""
              /\ store[s].vals.assistance_description # ""
      /\ \A i \in DOMAIN store[s].vals.messages :
           store[s].vals.messages[i].content # "[incomplete]"

C35_Witness ==
    \E s \in DOMAIN store :
      /\ s \in DOMAIN lastRun
      /\ lastRun[s].kind = "new"
      /\ lastRun[s].suspended
      /\ Found(s).next = {}
      /\ store[s].next = HumanApproval
      /\ store[s].vals.user_email = "a@b.co"


\* C36: in a run through the confirmation handler, route_after_confirmation
\* answers confirmed only when the handler has set assistance_step to
\* confirmed, and cancelled only when the handler has set it to cancelled.
C36_ConfirmationConsistent ==
    \A s \in DOMAIN lastRun :
      (/\ lastRun[s].kind = "new"
       /\ Found(s).vals.assistance_step = "confirming_send"
       /\ interrupt_before = HumanApproval)
        => /\ <<"assistance_confirm", "confirmed">> \in lastRun[s].routes
                => Left(s).vals.assistance_step = "confirmed"
           /\ <<"assistance_confirm", "cancelled">> \in lastRun[s].routes
                => Left(s).vals.assistance_step = "cancelled"


\* C37: the run in which the collection handler stores the description goes
\* on to the confirmation handler, which reads the same message, and that
\* handler never takes it for a confirmation: the run leaves
\* assistance_step at confirming_send, does not reach the approval step and
\* does not end suspended.
C37_DescriptionIsNoConfirmation ==
    \A s \in DOMAIN lastRun :
      (/\ lastRun[s].kind = "new"
       /\ Found(s).vals.assistance_step = "collecting_description"
       /\ <<"assistance_collect_info", "ready_to_confirm">> \in lastRun[s].routes)
        => /\ Left(s).vals.assistance_description = lastRun[s].payload
           /\ Left(s).vals.assistance_step = "confirming_send"
           /\ <<"assistance_confirm", "confirmed">> \notin lastRun[s].routes
           /\ ~ReachedApproval(s)
           /\ ~lastRun[s].suspended
           /\ Left(s).next = {}

C37_Witness ==
    \E s \in DOMAIN lastRun :
      /\ lastRun[s].kind = "new"
      /\ Found(s).vals.assistance_step = "collecting_description"
      /\ lastRun[s].payload = "divorce benin"
      /\ Left(s).vals.assistance_description = "divorce benin"
      /\ "assistance_confirm" \in Range(lastRun[s].trace)


\* C38: after a resume with an approval the email_status left in the
\* checkpoint is sent exactly when the Notifier reported success, and error
\* when the delivery failed.
C38_EmailStatusFollowsNotifier ==
    (pd_result.made /\ pd_result.approved /\ pd_result.notifier # "not_called")
    => /\ pd_result.email_status = "sent" <=> pd_result.notifier = "sent"
       /\ pd_result.notifier = "failed" => pd_result.email_status = "error"


\* C39: a run that resumes the approval step finds the suspension still
\* pending when it writes its result: no second call has resumed the same
\* suspension and called the Notifier for it meanwhile.
C39_ResumedOncePerSuspension ==
    \A s \in DOMAIN lastRun :
      (/\ lastRun[s].kind = "resume"
       /\ "human_approval" \in Range(lastRun[s].trace))
        => lastRun[s].wasPending


\* C40: once add_country has accepted a country on the initialized system,
\* the chat() calls that follow run on a graph that has the retrieval step
\* of that country.
C40_AddedCountryServed ==
    system.chat_graph # NoGraph => system.added \subseteq system.chat_graph[1]

====
